---- MODULE Spec2Model ----
(***************************************************************************)
(* Model of the two d2pbuyersguide.com scrapers:                           *)
(*   simple_scraper.py  (SimpleD2PScraper, urllib)                         *)
(*   fixed_scraper.py   (D2PBuyersGuideScraper, requests)                  *)
(* A behaviour is one call of one entry point of one script; Init draws    *)
(* the script, the entry point and the call's arguments.  The transport    *)
(* (the remote host and the network) answers every request with a          *)
(* nondeterministically chosen outcome.                                    *)
(***************************************************************************)
EXTENDS Integers, Sequences, FiniteSets, TLC

VARIABLES
    script,               \* "simple" | "fixed": which file runs
    entry,                \* the function the behaviour calls
    pc,                   \* position in the running code; "done" | "crashed" at the end
    exc,                  \* the uncaught exception that ended the run, or "none"
    net,                  \* what the process did to the outside world, in order:
                          \*   requests issued and sleeps taken
    i,                    \* iterations completed by the loop that is running
    test_urls,            \* explore_site / find_working_endpoints: candidate list
    all_tests,            \* explore_site: local `results`
    working_endpoints,    \* explore_site / find_working_endpoints: local list
    exploration_results,  \* value returned by explore_site (Null before)
    urls,                 \* scrape_original_urls / scrape_with_error_handling: argument
    results,              \* scrape_original_urls: local `results`
    successful,           \* scrape_original_urls: local `successful`
    failed,               \* scrape_original_urls: local `failed`
    scraping_results,     \* value returned by scrape_original_urls (Null before)
    failed_results,       \* analyze_errors / _analyze_errors: argument
    error_analysis,       \* value returned by analyze_errors (Null before)
    recommendations,      \* value returned by generate_recommendations (Null before)
    url_tests,            \* test_url_variations: local dict `results`
    f_results,            \* scrape_with_error_handling: local dict `results`
    site_analysis,        \* value returned by explore_site_structure (Null before)
    saved                 \* main: "no" | "written" | "warned"

vars == <<script, entry, pc, exc, net, i, test_urls, all_tests, working_endpoints,
          exploration_results, urls, results, successful, failed, scraping_results,
          failed_results, error_analysis, recommendations, url_tests, f_results,
          site_analysis, saved>>

(***************************************************************************)
(* Bounds                                                                  *)
(***************************************************************************)
\* longest candidate list probed by a call of the explorers
MaxCand == 3
\* longest URL list given to a call of the retesters
MaxUrls == 3
\* longest list given to a direct call of the error classifier
MaxFail == 3
\* length of the catalogue and of the legacy list when main runs
MainLen == 1

Null == [none |-> TRUE]

(***************************************************************************)
(* Python helpers                                                          *)
(***************************************************************************)
\* dict.get(key, default) on a dict modelled as a function
DictGet(d, key, default) == IF key \in DOMAIN d THEN d[key] ELSE default

\* d[key] = value
DictSet(d, key, value) ==
    [x \in (DOMAIN d) \cup {key} |-> IF x = key THEN value ELSE d[x]]

EmptyDict == [x \in {} |-> 0]

\* dictionary keys that are Python ints, resp. Python strings
IntKey(n) == [int |-> n]
StrKey(s) == [str |-> s]

\* result.get(field, default) on a record with optional fields
HasKey(r, field) == field \in DOMAIN r

\* s[:n]
Prefix(s, n) == IF Len(s) <= n THEN s ELSE SubSeq(s, 1, n)

\* str.replace(old, new): every non-overlapping occurrence, left to right
RECURSIVE str_replace(_, _, _)
str_replace(s, old, new) ==
    IF Len(s) < Len(old) THEN s
    ELSE IF SubSeq(s, 1, Len(old)) = old
         THEN new \o str_replace(SubSeq(s, Len(old) + 1, Len(s)), old, new)
         ELSE SubSeq(s, 1, 1) \o str_replace(SubSeq(s, 2, Len(s)), old, new)

\* the elements of a sequence that satisfy Test, in order
Filter(s, Test(_)) == SelectSeq(s, Test)

RECURSIVE SumOver(_, _)
SumOver(d, keys) ==
    IF keys = {} THEN 0
    ELSE LET k == CHOOSE x \in keys : TRUE
         IN  d[k] + SumOver(d, keys \ {k})

\* sum(d.values())
DictSum(d) == SumOver(d, DOMAIN d)

\* number of positions of s that satisfy Test
Count(s, Test(_)) == Cardinality({k \in 1..Len(s) : Test(s[k])})

\* the set of elements of a sequence
Range(s) == {s[k] : k \in 1..Len(s)}

\* the sequences over S of length at most n
SeqsUpTo(S, n) == UNION {[1..m -> S] : m \in 0..n}

(***************************************************************************)
(* Transport: what one GET can do                                          *)
(***************************************************************************)
Reason(code) ==
    CASE code = 403 -> "Forbidden"
      [] code = 404 -> "Not Found"
      [] code = 500 -> "Internal Server Error"
      [] OTHER -> "Error"

\* urllib.request.urlopen(url, timeout=15) followed by the body read:
\*   "ok"         a 2xx response; read = FALSE when response.read() raises
\*   "http_error" urllib.error.HTTPError (non-2xx); read = FALSE when e.read() raises
\*   "failure"    any other exception of urlopen (URLError, socket timeout)
UrllibOutcomes ==
    { [kind |-> "ok", code |-> 200, body |-> "<html>", read |-> TRUE],
      [kind |-> "ok", code |-> 204, body |-> "", read |-> TRUE],
      [kind |-> "ok", code |-> 200, body |-> "", read |-> FALSE],
      [kind |-> "http_error", code |-> 404, body |-> "nf", read |-> TRUE],
      [kind |-> "http_error", code |-> 403, body |-> "", read |-> TRUE],
      [kind |-> "http_error", code |-> 500, body |-> "", read |-> TRUE],
      [kind |-> "http_error", code |-> 404, body |-> "", read |-> FALSE],
      [kind |-> "failure", code |-> 0, body |-> "", read |-> FALSE] }

\* str(e) of the exceptions above
ReadErrorText == "IncompleteRead(0 bytes read)"
TimeoutText == "<urlopen error timed out>"

\* requests.Session.get(url, timeout=..): a response of any status (the body
\* is read inside get), or a requests.exceptions.RequestException
RequestsOutcomes ==
    { [kind |-> "response", status_code |-> 200, text |-> "<html>"],
      [kind |-> "response", status_code |-> 204, text |-> ""],
      [kind |-> "response", status_code |-> 404, text |-> "nf"],
      [kind |-> "response", status_code |-> 403, text |-> ""],
      [kind |-> "response", status_code |-> 500, text |-> ""],
      [kind |-> "exception", status_code |-> 0, text |-> "Read timed out."] }

\* one GET and what came back
Request(url, o) == [ev |-> "request", url |-> url, outcome |-> o]
Sleep == [ev |-> "sleep", url |-> ""]

(***************************************************************************)
(* simple_scraper.py                                                       *)
(***************************************************************************)
\* test_url whose generic handler reports a status code of 0 and no preview
\* placeholder
test_urlZeroStatus(url, o) ==
    IF o.kind = "ok" /\ o.read
    THEN [url |-> url,
          status_code |-> o.code,
          success |-> TRUE,
          content_length |-> Len(o.body),
          content_preview |-> IF o.body # "" THEN Prefix(o.body, 300)
                                             ELSE "Empty response",
          headers |-> "headers"]
    ELSE IF o.kind = "http_error"
    THEN IF o.read
         THEN [url |-> url,
               status_code |-> o.code,
               success |-> FALSE,
               error |-> "HTTP " \o ToString(o.code) \o ": " \o Reason(o.code),
               content_preview |-> Prefix(o.body, 200)]
         ELSE [raise |-> ReadErrorText]
    ELSE [url |-> url,
          status_code |-> 0,
          success |-> FALSE,
          error |-> IF o.kind = "ok" THEN ReadErrorText ELSE TimeoutText,
          content_preview |-> ""]

\* SimpleD2PScraper.test_url: the returned dict, or [raise |-> ..] when an
\* exception leaves the function
test_url(url, o) ==
    IF o.kind = "ok" /\ o.read
    THEN [url |-> url,
          status_code |-> o.code,
          success |-> TRUE,
          content_length |-> Len(o.body),
          content_preview |-> IF o.body # "" THEN Prefix(o.body, 300)
                                             ELSE "Empty response",
          headers |-> "headers"]
    ELSE IF o.kind = "http_error"
    THEN IF o.read
         THEN [url |-> url,
               status_code |-> o.code,
               success |-> FALSE,
               error |-> "HTTP " \o ToString(o.code) \o ": " \o Reason(o.code),
               content_preview |-> Prefix(o.body, 200)]
         ELSE [raise |-> ReadErrorText]
    ELSE [url |-> url,
          success |-> FALSE,
          error |-> IF o.kind = "ok" THEN ReadErrorText ELSE TimeoutText,
          content_preview |-> "No content"]

Raised(r) == HasKey(r, "raise")

\* IsWorking without the status test: any 2xx counts as working
IsWorkingAnySuccess(result) == HasKey(result, "success") /\ result.success

\* result.get('success') and result.get('status_code') == 200
IsWorking(result) ==
    /\ HasKey(result, "success") /\ result.success
    /\ HasKey(result, "status_code") /\ result.status_code = 200

\* explore_site: the catalogue built from base_domain (its first entries)
Catalogue(base_domain) ==
    << "https://" \o base_domain,
       "http://" \o base_domain,
       "https://" \o base_domain \o "/",
       "https://" \o base_domain \o "/index.html" >>

\* ExplorationReport with `failed` counted as the probes without success
ExplorationReportByFlag(res, working) ==
    [all_tests |-> res,
     working_endpoints |-> working,
     summary |-> [total_tested |-> Len(res),
                  successful |-> Len(working),
                  failed |-> Len(SelectSeq(res, LAMBDA r : ~r.success))]]

\* explore_site: the returned report
ExplorationReport(res, working) ==
    [all_tests |-> res,
     working_endpoints |-> working,
     summary |-> [total_tested |-> Len(res),
                  successful |-> Len(working),
                  failed |-> Len(res) - Len(working)]]

\* f"{(successful/total*100):.1f}%" for total > 0: tenths of a percent,
\* rounded to nearest (ties to even), printed with one decimal
Tenths(succ, total) ==
    LET q == (1000 * succ) \div total
        r == (1000 * succ) % total
    IN  IF 2 * r < total THEN q
        ELSE IF 2 * r > total THEN q + 1
        ELSE IF q % 2 = 0 THEN q ELSE q + 1

success_rate(succ, total) ==
    ToString(Tenths(succ, total) \div 10) \o "." \o
    ToString(Tenths(succ, total) % 10) \o "%"

\* scrape_original_urls: the return statement; the division raises
\* ZeroDivisionError when results is empty
RetestReport(res, succ, fail) ==
    IF Len(res) = 0
    THEN [raise |-> "ZeroDivisionError: division by zero"]
    ELSE [all_results |-> res,
          successful |-> succ,
          failed |-> fail,
          summary |-> [total |-> Len(res),
                       successful |-> Len(succ),
                       failed |-> Len(fail),
                       success_rate |-> success_rate(Len(succ), Len(res))]]

\* result.get('error', 'Unknown') and result.get('status_code', 'Unknown')
ErrorOf(result) == IF HasKey(result, "error") THEN result.error ELSE "Unknown"
StatusOf(result) ==
    IF HasKey(result, "status_code") THEN IntKey(result.status_code)
    ELSE StrKey("Unknown")

\* TallyFrom that stores 1 instead of incrementing the stored count
RECURSIVE TallyFromOverwrite(_, _, _, _)
TallyFromOverwrite(fr, k, error_counts, status_codes) ==
    IF k > Len(fr)
    THEN [error_types |-> error_counts, status_codes |-> status_codes]
    ELSE TallyFromOverwrite(fr, k + 1,
             DictSet(error_counts, ErrorOf(fr[k]), 1),
             DictSet(status_codes, StatusOf(fr[k]), 1))

\* the for loop of analyze_errors, from position k on
RECURSIVE TallyFrom(_, _, _, _)
TallyFrom(fr, k, error_counts, status_codes) ==
    IF k > Len(fr)
    THEN [error_types |-> error_counts, status_codes |-> status_codes]
    ELSE LET error == ErrorOf(fr[k])
             status == StatusOf(fr[k])
         IN  TallyFrom(fr, k + 1,
                 DictSet(error_counts, error, DictGet(error_counts, error, 0) + 1),
                 DictSet(status_codes, status, DictGet(status_codes, status, 0) + 1))

\* SimpleD2PScraper.analyze_errors
analyze_errors(fr) ==
    LET t == TallyFrom(fr, 1, EmptyDict, EmptyDict)
    IN  [error_types |-> t.error_types,
         status_codes |-> t.status_codes,
         total_failures |-> Len(fr)]

\* the messages of generate_recommendations (without their leading emoji)
MsgNoWorking == "No working endpoints found - site may be down or completely restructured"
MsgMoved == "Consider checking if the site has moved to a different domain"
MsgContact == "Contact the site administrator for current URL structure"
MsgFound(n) == "Found " \o ToString(n) \o " working endpoints"
MsgUseWorking == "Use the working endpoints instead of the pagination URLs"
MsgAllFailed == "All original pagination URLs failed"
MsgChanged == "The pagination structure has likely changed"
MsgTryWorking == "Try using the working endpoints found during exploration"
Msg404 == "404 errors confirm URL structure has changed"
Msg403 == "403 errors suggest access restrictions"

\* RecsExploration with the else branch taken unconditionally
RecsExplorationNoElse(ex) ==
    (IF ex.summary.successful = 0
     THEN <<MsgNoWorking, MsgMoved, MsgContact>> ELSE <<>>)
    \o <<MsgFound(ex.summary.successful), MsgUseWorking>>

\* generate_recommendations, first rule: the exploration summary
RecsExploration(ex) ==
    IF ex.summary.successful = 0
    THEN <<MsgNoWorking, MsgMoved, MsgContact>>
    ELSE <<MsgFound(ex.summary.successful), MsgUseWorking>>

\* generate_recommendations, second rule: the retest summary
RecsRetest(sc) ==
    IF sc.summary.successful = 0
    THEN <<MsgAllFailed, MsgChanged, MsgTryWorking>>
    ELSE <<>>

\* RecsStatus with the 403 test written as an elif of the 404 test
RecsStatusElif(sc) ==
    IF sc.summary.failed > 0
    THEN LET ea == analyze_errors(sc.failed)
         IN  IF DictGet(ea.status_codes, IntKey(404), 0) > 0 THEN <<Msg404>>
             ELSE IF DictGet(ea.status_codes, IntKey(403), 0) > 0 THEN <<Msg403>>
             ELSE <<>>
    ELSE <<>>

\* generate_recommendations, third rule: the status codes of the failures
RecsStatus(sc) ==
    IF sc.summary.failed > 0
    THEN LET ea == analyze_errors(sc.failed)
         IN  (IF DictGet(ea.status_codes, IntKey(404), 0) > 0
              THEN <<Msg404>> ELSE <<>>)
             \o
             (IF DictGet(ea.status_codes, IntKey(403), 0) > 0
              THEN <<Msg403>> ELSE <<>>)
    ELSE <<>>

\* SimpleD2PScraper.generate_recommendations
generate_recommendations(ex, sc) ==
    RecsExploration(ex) \o RecsRetest(sc) \o RecsStatus(sc)

(***************************************************************************)
(* Arguments of the calls                                                  *)
(***************************************************************************)
Domain == "d2p.test"

\* main: original_urls (its first entries)
original_urls ==
    << "http://" \o Domain \o "/filter/all/page/1",
       "http://" \o Domain \o "/filter/all/page/2",
       "http://" \o Domain \o "/filter/all/page/3" >>

\* URLs a caller may put in the list given to the retesters
UrlSet == { "http://" \o Domain \o "/p1",
            "https://" \o Domain \o "/go?u=http://x" }

FirstN(s, n) == SubSeq(s, 1, IF n < Len(s) THEN n ELSE Len(s))

\* the dicts test_url can return for one URL
ProbeResults(url) ==
    {r \in {test_url(url, o) : o \in UrllibOutcomes} : ~Raised(r)}

\* dicts a caller may put in the list given to analyze_errors
FailRecords == ProbeResults("u") \cup {[url |-> "u"]}

\* the state at the call of function e of script s
Start(s, e, p, tu, us, fr, ex, sc) ==
    /\ script = s
    /\ entry = e
    /\ pc = p
    /\ exc = "none"
    /\ net = <<>>
    /\ i = 0
    /\ test_urls = tu
    /\ all_tests = <<>>
    /\ working_endpoints = <<>>
    /\ exploration_results = ex
    /\ urls = us
    /\ results = <<>>
    /\ successful = <<>>
    /\ failed = <<>>
    /\ scraping_results = sc
    /\ failed_results = fr
    /\ error_analysis = Null
    /\ recommendations = Null
    /\ url_tests = EmptyDict
    /\ f_results = Null
    /\ site_analysis = Null
    /\ saved = "no"

\* scraper.explore_site(base_domain)
InitExploreSite ==
    \E n \in 0..MaxCand :
        Start("simple", "explore_site", "explore",
              FirstN(Catalogue(Domain), n), <<>>, <<>>, Null, Null)

\* scraper.scrape_original_urls(urls)
InitScrapeOriginalUrls ==
    \E us \in SeqsUpTo(UrlSet, MaxUrls) :
        Start("simple", "scrape_original_urls", "retest",
              <<>>, us, <<>>, Null, Null)

\* scraper.analyze_errors(failed_results)
InitAnalyzeErrors ==
    \E fr \in SeqsUpTo(FailRecords, MaxFail) :
        Start("simple", "analyze_errors", "call", <<>>, <<>>, fr, Null, Null)

\* simple_scraper.main()
InitSimpleMain ==
    Start("simple", "main", "explore",
          FirstN(Catalogue(Domain), MainLen), FirstN(original_urls, MainLen),
          <<>>, Null, Null)

(***************************************************************************)
(* simple_scraper.py: steps                                                *)
(***************************************************************************)
explorerVars == <<test_urls, all_tests, working_endpoints, exploration_results>>
retesterVars == <<urls, results, successful, failed, scraping_results>>
reportVars == <<failed_results, error_analysis, recommendations>>
fixedVars == <<url_tests, f_results, site_analysis>>

Crash(text) == pc' = "crashed" /\ exc' = text

\* explore_site, loop body up to the sleep: probe the next candidate
ExploreProbe ==
    /\ script = "simple" /\ pc = "explore" /\ i < Len(test_urls)
    /\ \E o \in UrllibOutcomes :
         LET url == test_urls[i + 1]
             result == test_url(url, o)
         IN  /\ net' = Append(net, Request(url, o))
             /\ IF Raised(result)
                THEN /\ Crash(result.raise)
                     /\ UNCHANGED <<all_tests, working_endpoints>>
                ELSE /\ all_tests' = Append(all_tests, result)
                     /\ working_endpoints' =
                            IF IsWorking(result)
                            THEN Append(working_endpoints, result)
                            ELSE working_endpoints
                     /\ pc' = "explore_sleep"
                     /\ exc' = exc
    /\ UNCHANGED <<script, entry, i, test_urls, exploration_results, retesterVars,
                   reportVars, fixedVars, saved>>

\* explore_site: time.sleep(0.5), end of the loop body
ExploreSleep ==
    /\ script = "simple" /\ pc = "explore_sleep"
    /\ net' = Append(net, Sleep)
    /\ i' = i + 1
    /\ pc' = "explore"
    /\ UNCHANGED <<script, entry, exc, explorerVars, retesterVars, reportVars,
                   fixedVars, saved>>

\* explore_site: the return statement; main goes on to scrape_original_urls
ExploreReturn ==
    /\ script = "simple" /\ pc = "explore" /\ i = Len(test_urls)
    /\ exploration_results' = ExplorationReport(all_tests, working_endpoints)
    /\ IF entry = "main" THEN pc' = "retest" /\ i' = 0
                         ELSE pc' = "done" /\ i' = i
    /\ UNCHANGED <<script, entry, exc, net, test_urls, all_tests, working_endpoints,
                   retesterVars, reportVars, fixedVars, saved>>

\* scrape_original_urls, loop body up to the sleep
RetestProbe ==
    /\ script = "simple" /\ pc = "retest" /\ i < Len(urls)
    /\ \E o \in UrllibOutcomes :
         LET url == urls[i + 1]
             https_url == str_replace(url, "http://", "https://")
             r == test_url(https_url, o)
         IN  /\ net' = Append(net, Request(https_url, o))
             /\ IF Raised(r)
                THEN /\ Crash(r.raise)
                     /\ UNCHANGED <<results, successful, failed>>
                ELSE LET result == [x \in (DOMAIN r) \cup {"original_url"} |->
                                       IF x = "original_url" THEN url ELSE r[x]]
                     IN  /\ results' = Append(results, result)
                         /\ IF IsWorking(result)
                            THEN /\ successful' = Append(successful, result)
                                 /\ failed' = failed
                            ELSE /\ failed' = Append(failed, result)
                                 /\ successful' = successful
                         /\ pc' = "retest_sleep"
                         /\ exc' = exc
    /\ UNCHANGED <<script, entry, i, urls, scraping_results, explorerVars,
                   reportVars, fixedVars, saved>>

\* scrape_original_urls: time.sleep(0.5), end of the loop body
RetestSleep ==
    /\ script = "simple" /\ pc = "retest_sleep"
    /\ net' = Append(net, Sleep)
    /\ i' = i + 1
    /\ pc' = "retest"
    /\ UNCHANGED <<script, entry, exc, explorerVars, retesterVars, reportVars,
                   fixedVars, saved>>

\* scrape_original_urls: the return statement; main goes on to its steps 3 and 4
RetestReturn ==
    /\ script = "simple" /\ pc = "retest" /\ i = Len(urls)
    /\ LET report == RetestReport(results, successful, failed)
       IN  IF Raised(report)
           THEN /\ Crash(report.raise)
                /\ UNCHANGED scraping_results
           ELSE /\ scraping_results' = report
                /\ pc' = IF entry = "main" THEN "report" ELSE "done"
                /\ exc' = exc
    /\ UNCHANGED <<script, entry, net, i, urls, results, successful, failed,
                   explorerVars, reportVars, fixedVars, saved>>

\* a direct call of analyze_errors
CallAnalyzeErrors ==
    /\ script = "simple" /\ entry = "analyze_errors" /\ pc = "call"
    /\ error_analysis' = analyze_errors(failed_results)
    /\ pc' = "done"
    /\ UNCHANGED <<script, entry, exc, net, i, explorerVars, retesterVars,
                   failed_results, recommendations, fixedVars, saved>>

\* longest result list inside a report given to a direct call of
\* generate_recommendations
MaxRep == 2

\* reports explore_site can return
ExplorationReports ==
    { ExplorationReport(res, Filter(res, IsWorking)) :
        res \in SeqsUpTo({ test_url("u", o) :
                             o \in {x \in UrllibOutcomes :
                                      x.read /\ x.code \in {200, 404}} }, MaxRep) }

NotWorking(result) == ~IsWorking(result)

\* reports scrape_original_urls can return
RetestReports ==
    { RetestReport(res, Filter(res, IsWorking), Filter(res, NotWorking)) :
        res \in SeqsUpTo(ProbeResults("u"), MaxRep) \ {<<>>} }

\* scraper.generate_recommendations(exploration_results, scraping_results)
InitGenerateRecommendations ==
    \E ex \in ExplorationReports, sc \in RetestReports :
        Start("simple", "generate_recommendations", "call",
              <<>>, <<>>, <<>>, ex, sc)

\* a direct call of generate_recommendations
CallGenerateRecommendations ==
    /\ script = "simple" /\ entry = "generate_recommendations" /\ pc = "call"
    /\ recommendations' = generate_recommendations(exploration_results,
                                                   scraping_results)
    /\ pc' = "done"
    /\ UNCHANGED <<script, entry, exc, net, i, explorerVars, retesterVars,
                   failed_results, error_analysis, fixedVars, saved>>

\* main, steps 3 and 4: error analysis and recommendations
MainReport ==
    /\ script = "simple" /\ pc = "report"
    /\ error_analysis' = IF scraping_results.failed # <<>>
                         THEN analyze_errors(scraping_results.failed)
                         ELSE error_analysis
    /\ recommendations' = generate_recommendations(exploration_results,
                                                   scraping_results)
    /\ pc' = "makedirs"
    /\ UNCHANGED <<script, entry, exc, net, i, explorerVars, retesterVars,
                   failed_results, fixedVars, saved>>

\* main: os.makedirs(output_dir, exist_ok=True), outside any try
MainMakedirs ==
    /\ script = "simple" /\ pc = "makedirs"
    /\ \E ok \in BOOLEAN :
         IF ok THEN pc' = "write" /\ exc' = exc
               ELSE Crash("OSError: makedirs")
    /\ UNCHANGED <<script, entry, net, i, explorerVars, retesterVars, reportVars,
                   fixedVars, saved>>

\* main: open + json.dump inside try/except Exception, then the conclusion
MainWrite ==
    /\ script = "simple" /\ pc = "write"
    /\ \E ok \in BOOLEAN : saved' = IF ok THEN "written" ELSE "warned"
    /\ pc' = "done"
    /\ UNCHANGED <<script, entry, exc, net, i, explorerVars, retesterVars,
                   reportVars, fixedVars>>

(***************************************************************************)
(* fixed_scraper.py                                                        *)
(***************************************************************************)
\* position of the first occurrence of sub in s at or after k, 0 if none
RECURSIVE Find(_, _, _)
Find(s, sub, k) ==
    IF k + Len(sub) - 1 > Len(s) THEN 0
    ELSE IF SubSeq(s, k, k + Len(sub) - 1) = sub THEN k
    ELSE Find(s, sub, k + 1)

\* urlparse(url).netloc for a URL of the form scheme://netloc[/path]
netloc(url) ==
    LET a == Find(url, "://", 1) + 3
        b == Find(url, "/", a)
    IN  SubSeq(url, a, IF b = 0 THEN Len(url) ELSE b - 1)

\* urljoin(base_url, endpoint) for an endpoint that is an absolute path
urljoin(base_url, endpoint) ==
    LET a == Find(base_url, "://", 1) + 3
        b == Find(base_url, "/", a)
    IN  SubSeq(base_url, 1, IF b = 0 THEN Len(base_url) ELSE b - 1) \o endpoint

\* test_url_variations: protocols
protocols == <<"https", "http">>

\* find_working_endpoints: endpoints_to_test (its first entries)
endpoints_to_test == <<"/", "/index.html", "/index.php", "/home">>

\* response.text[:n] if response.text else "Empty response"
Preview(text, n) == IF text # "" THEN Prefix(text, n) ELSE "Empty response"

\* test_url_variations: the entry stored for one protocol
VariationEntry(o) ==
    IF o.kind = "response"
    THEN [status_code |-> o.status_code,
          content_length |-> Len(o.text),
          content_preview |-> Preview(o.text, 200)]
    ELSE [error |-> o.text]

\* find_working_endpoints: working_endpoints after one probe
FoundEndpoints(working, url, o) ==
    IF o.kind = "response" /\ o.status_code = 200
    THEN Append(working, [url |-> url,
                          status_code |-> o.status_code,
                          content_length |-> Len(o.text),
                          content_preview |-> Preview(o.text, 300)])
    ELSE working

Is200(ep) == HasKey(ep, "status_code") /\ ep.status_code = 200

\* explore_site_structure: the returned report
SiteAnalysis(tests, working) ==
    [base_url_tests |-> tests,
     working_endpoints |-> working,
     exploration_summary |->
        [total_endpoints_tested |-> Len(working),
         working_endpoints_found |-> Len(Filter(working, Is200))]]

\* Scraped with a sloppy success test (any status below 300) and an
\* exception handler that only logs
ScrapedLoose(res, url, o) ==
    LET https_url == str_replace(url, "http://", "https://")
    IN  IF o.kind = "response"
        THEN IF o.status_code < 300
             THEN [res EXCEPT !.successful_scrapes =
                      Append(@, [url |-> https_url,
                                 status_code |-> o.status_code,
                                 content_length |-> Len(o.text),
                                 content_preview |-> Preview(o.text, 500)])]
             ELSE [res EXCEPT !.failed_scrapes =
                      Append(@, [url |-> https_url,
                                 status_code |-> o.status_code,
                                 error |-> "HTTP " \o ToString(o.status_code)])]
        ELSE res

\* scrape_with_error_handling: `results` after one iteration
Scraped(res, url, o) ==
    LET https_url == str_replace(url, "http://", "https://")
    IN  IF o.kind = "response"
        THEN IF o.status_code = 200
             THEN [res EXCEPT !.successful_scrapes =
                      Append(@, [url |-> https_url,
                                 status_code |-> o.status_code,
                                 content_length |-> Len(o.text),
                                 content_preview |-> Preview(o.text, 500)])]
             ELSE [res EXCEPT !.failed_scrapes =
                      Append(@, [url |-> https_url,
                                 status_code |-> o.status_code,
                                 error |-> "HTTP " \o ToString(o.status_code)])]
        ELSE [res EXCEPT !.failed_scrapes =
                 Append(@, [url |-> url, error |-> o.text])]

\* the for loop of _analyze_errors, from position k on
RECURSIVE FixedTallyFrom(_, _, _, _)
FixedTallyFrom(fs, k, error_counts, status_codes) ==
    IF k > Len(fs)
    THEN [error_types |-> error_counts, status_codes |-> status_codes]
    ELSE LET error_type == ErrorOf(fs[k])
             status_code == StatusOf(fs[k])
         IN  FixedTallyFrom(fs, k + 1,
                 DictSet(error_counts, error_type,
                         DictGet(error_counts, error_type, 0) + 1),
                 DictSet(status_codes, status_code,
                         DictGet(status_codes, status_code, 0) + 1))

\* D2PBuyersGuideScraper._analyze_errors
fixed_analyze_errors(failed_scrapes) ==
    LET t == FixedTallyFrom(failed_scrapes, 1, EmptyDict, EmptyDict)
    IN  [error_types |-> t.error_types,
         status_codes |-> t.status_codes,
         total_failures |-> Len(failed_scrapes)]

\* the messages of _generate_recommendations (without their leading emoji)
FMsgNone == "No successful scrapes - the site may be down or URLs are incorrect"
FMsgManual == "Try investigating the site structure manually"
FMsgMoved == "Check if the site has moved to a different domain"
FMsg404 == "404 errors suggest URL structure has changed"
FMsgSitemap == "Consider using a sitemap or site exploration tool"
FMsg403 == "403 errors suggest access restrictions"
FMsgAuth == "Check if authentication is required"

\* D2PBuyersGuideScraper._generate_recommendations
fixed_generate_recommendations(res) ==
    (IF res.successful_scrapes = <<>>
     THEN <<FMsgNone, FMsgManual, FMsgMoved>> ELSE <<>>)
    \o
    (IF DictGet(res.error_summary.status_codes, IntKey(404), 0) > 0
     THEN <<FMsg404, FMsgSitemap>> ELSE <<>>)
    \o
    (IF DictGet(res.error_summary.status_codes, IntKey(403), 0) > 0
     THEN <<FMsg403, FMsgAuth>> ELSE <<>>)

\* scrape_with_error_handling: `results` at the start of the call
EmptyResults ==
    [successful_scrapes |-> <<>>,
     failed_scrapes |-> <<>>,
     error_summary |-> EmptyDict,
     recommendations |-> <<>>]

\* scrape_with_error_handling: the statements after the loop
Finished(res) ==
    LET summarised == [res EXCEPT !.error_summary =
                           fixed_analyze_errors(res.failed_scrapes)]
    IN  [summarised EXCEPT !.recommendations =
             fixed_generate_recommendations(summarised)]

\* the dicts scrape_with_error_handling can put in failed_scrapes
FixedFailRecords ==
    UNION { Range(Scraped(EmptyResults, "u", o).failed_scrapes) :
              o \in RequestsOutcomes }
    \cup {[url |-> "u"]}

\* scraper.explore_site_structure(base_domain)
InitExploreSiteStructure ==
    \E n \in 0..MaxCand :
        Start("fixed", "explore_site_structure", "variations",
              FirstN(endpoints_to_test, n), <<>>, <<>>, Null, Null)

\* scraper.scrape_with_error_handling(urls)
InitScrapeWithErrorHandling ==
    \E us \in SeqsUpTo(UrlSet, MaxUrls) :
        Start("fixed", "scrape_with_error_handling", "scrape_call",
              <<>>, us, <<>>, Null, Null)

\* scraper._analyze_errors(failed_scrapes)
InitFixedAnalyzeErrors ==
    \E fr \in SeqsUpTo(FixedFailRecords, MaxFail) :
        Start("fixed", "_analyze_errors", "call", <<>>, <<>>, fr, Null, Null)

\* fixed_scraper.main()
InitFixedMain ==
    Start("fixed", "main", "variations",
          FirstN(endpoints_to_test, MainLen), FirstN(original_urls, MainLen),
          <<>>, Null, Null)

(***************************************************************************)
(* fixed_scraper.py: steps                                                 *)
(***************************************************************************)
\* test_url_variations: one iteration of the loop over the protocols; after
\* the last one explore_site_structure calls find_working_endpoints
VariationProbe ==
    /\ script = "fixed" /\ pc = "variations" /\ i < Len(protocols)
    /\ \E o \in RequestsOutcomes :
         LET base_url == "https://" \o Domain
             url == protocols[i + 1] \o "://" \o netloc(base_url)
         IN  /\ net' = Append(net, Request(url, o))
             /\ url_tests' = DictSet(url_tests, url, VariationEntry(o))
    /\ IF i + 1 = Len(protocols) THEN pc' = "find" /\ i' = 0
                                 ELSE pc' = pc /\ i' = i + 1
    /\ UNCHANGED <<script, entry, exc, explorerVars, retesterVars, reportVars,
                   f_results, site_analysis, saved>>

\* find_working_endpoints: one iteration of the loop
FindProbe ==
    /\ script = "fixed" /\ pc = "find" /\ i < Len(test_urls)
    /\ \E o \in RequestsOutcomes :
         LET base_url == "https://" \o Domain
             url == urljoin(base_url, test_urls[i + 1])
         IN  /\ net' = Append(net, Request(url, o))
             /\ working_endpoints' = FoundEndpoints(working_endpoints, url, o)
    /\ i' = i + 1
    /\ UNCHANGED <<script, entry, pc, exc, test_urls, all_tests,
                   exploration_results, retesterVars, reportVars, fixedVars, saved>>

\* find_working_endpoints returns and explore_site_structure returns its
\* report; main goes on to scrape_with_error_handling
ExploreStructureReturn ==
    /\ script = "fixed" /\ pc = "find" /\ i = Len(test_urls)
    /\ site_analysis' = SiteAnalysis(url_tests, working_endpoints)
    /\ pc' = IF entry = "main" THEN "scrape_call" ELSE "done"
    /\ UNCHANGED <<script, entry, exc, net, i, explorerVars, retesterVars,
                   reportVars, url_tests, f_results, saved>>

\* scrape_with_error_handling: the initial `results` dict
ScrapeBegin ==
    /\ script = "fixed" /\ pc = "scrape_call"
    /\ f_results' = EmptyResults
    /\ i' = 0
    /\ pc' = "scrape"
    /\ UNCHANGED <<script, entry, exc, net, explorerVars, retesterVars,
                   reportVars, url_tests, site_analysis, saved>>

\* scrape_with_error_handling, loop body up to the sleep
ScrapeProbe ==
    /\ script = "fixed" /\ pc = "scrape" /\ i < Len(urls)
    /\ \E o \in RequestsOutcomes :
         /\ net' = Append(net, Request(str_replace(urls[i + 1],
                                                   "http://", "https://"), o))
         /\ f_results' = Scraped(f_results, urls[i + 1], o)
    /\ pc' = "scrape_sleep"
    /\ UNCHANGED <<script, entry, exc, i, explorerVars, retesterVars,
                   reportVars, url_tests, site_analysis, saved>>

\* scrape_with_error_handling: time.sleep(1), end of the loop body
ScrapeSleep ==
    /\ script = "fixed" /\ pc = "scrape_sleep"
    /\ net' = Append(net, Sleep)
    /\ i' = i + 1
    /\ pc' = "scrape"
    /\ UNCHANGED <<script, entry, exc, explorerVars, retesterVars, reportVars,
                   fixedVars, saved>>

\* scrape_with_error_handling: error summary, recommendations and return
ScrapeFinish ==
    /\ script = "fixed" /\ pc = "scrape" /\ i = Len(urls)
    /\ f_results' = Finished(f_results)
    /\ pc' = IF entry = "main" THEN "write" ELSE "done"
    /\ UNCHANGED <<script, entry, exc, net, i, explorerVars, retesterVars,
                   reportVars, url_tests, site_analysis, saved>>

\* main: open + json.dump with no try around them
FixedMainWrite ==
    /\ script = "fixed" /\ pc = "write"
    /\ \E ok \in BOOLEAN :
         IF ok THEN saved' = "written" /\ pc' = "done" /\ exc' = exc
               ELSE saved' = saved /\ Crash("OSError: open")
    /\ UNCHANGED <<script, entry, net, i, explorerVars, retesterVars, reportVars,
                   fixedVars>>

\* a direct call of _analyze_errors
CallFixedAnalyzeErrors ==
    /\ script = "fixed" /\ entry = "_analyze_errors" /\ pc = "call"
    /\ error_analysis' = fixed_analyze_errors(failed_results)
    /\ pc' = "done"
    /\ UNCHANGED <<script, entry, exc, net, i, explorerVars, retesterVars,
                   failed_results, recommendations, fixedVars, saved>>

(***************************************************************************)
(* Specification                                                           *)
(***************************************************************************)
Init ==
    \/ InitExploreSite
    \/ InitScrapeOriginalUrls
    \/ InitAnalyzeErrors
    \/ InitGenerateRecommendations
    \/ InitSimpleMain
    \/ InitExploreSiteStructure
    \/ InitScrapeWithErrorHandling
    \/ InitFixedAnalyzeErrors
    \/ InitFixedMain

Next ==
    \/ ExploreProbe
    \/ ExploreSleep
    \/ ExploreReturn
    \/ RetestProbe
    \/ RetestSleep
    \/ RetestReturn
    \/ CallAnalyzeErrors
    \/ CallGenerateRecommendations
    \/ MainReport
    \/ MainMakedirs
    \/ MainWrite
    \/ VariationProbe
    \/ FindProbe
    \/ ExploreStructureReturn
    \/ ScrapeBegin
    \/ ScrapeProbe
    \/ ScrapeSleep
    \/ ScrapeFinish
    \/ FixedMainWrite
    \/ CallFixedAnalyzeErrors

Spec == Init /\ [][Next]_vars

(***************************************************************************)
(* Properties                                                              *)
(***************************************************************************)
IsRequest(e) == e.ev = "request"
RequestsIssued == Count(net, IsRequest)

Has200(r) == HasKey(r, "status_code") /\ r.status_code = 200
Not200(r) == ~Has200(r)

\* a is b with some elements left out
RECURSIVE IsSubSeq(_, _)
IsSubSeq(a, b) ==
    IF a = <<>> THEN TRUE
    ELSE IF b = <<>> THEN FALSE
    ELSE IF Head(a) = Head(b) THEN IsSubSeq(Tail(a), Tail(b))
    ELSE IsSubSeq(a, Tail(b))

Rewritten(us) == [k \in 1..Len(us) |-> str_replace(us[k], "http://", "https://")]
FieldOf(s, field) == [k \in 1..Len(s) |-> s[k][field]]

Ended == pc \in {"done", "crashed"}

\* C1: every probe request yields a result record, whatever its outcome, so
\* the results collected always number the requests issued (no request ends
\* the run without a record), in explore_site and scrape_original_urls and
\* in scrape_with_error_handling.
C1_EveryProbeYieldsResult ==
    /\ (script = "simple" /\ entry \in {"explore_site", "scrape_original_urls", "main"})
          => Len(all_tests) + Len(results) = RequestsIssued
    /\ (script = "fixed" /\ entry = "scrape_with_error_handling" /\ f_results # Null)
          => Len(f_results.successful_scrapes) + Len(f_results.failed_scrapes)
               = RequestsIssued

\* C2: pacing: no two requests are issued back to back, a sleep lies between
\* any two consecutive requests of a run.
C2_SleepBetweenRequests ==
    \A k \in 1..(Len(net) - 1) :
        ~(net[k].ev = "request" /\ net[k + 1].ev = "request")

\* C3: scrape_original_urls called with no URL ends normally and returns a
\* report with total = successful = failed = 0 and a defined success rate.
C3_EmptyRetestIsDefined ==
    (script = "simple" /\ entry = "scrape_original_urls" /\ urls = <<>> /\ Ended)
        => /\ pc = "done"
           /\ scraping_results # Null
           /\ scraping_results.summary.total = 0
           /\ scraping_results.summary.successful = 0
           /\ scraping_results.summary.failed = 0
           /\ scraping_results.summary.success_rate = "0.0%"

C4_Selected(r) == HasKey(r, "success") /\ r.success /\ Has200(r)

\* C4: the working_endpoints list of explore_site is exactly the subsequence
\* of all_tests with success = true and status_code = 200, in the same
\* order, while the loop runs and in the returned report.
C4_WorkingEndpointsExact ==
    (script = "simple" /\ entry \in {"explore_site", "main"})
        => /\ working_endpoints = SelectSeq(all_tests, C4_Selected)
           /\ exploration_results # Null
                => /\ exploration_results.all_tests = all_tests
                   /\ exploration_results.working_endpoints
                        = SelectSeq(exploration_results.all_tests, C4_Selected)

\* C4 witness: a returned report over 200, another 2xx and a failure
C4_Witness ==
    /\ script = "simple" /\ entry = "explore_site" /\ pc = "done"
    /\ Len(exploration_results.all_tests) = 3
    /\ Len(exploration_results.working_endpoints) = 1
    /\ exploration_results.all_tests[2].success
    /\ exploration_results.all_tests[2].status_code = 204
    /\ exploration_results.all_tests[3].success
    /\ exploration_results.all_tests[3].status_code = 200
    /\ ~HasKey(exploration_results.all_tests[1], "status_code")

\* C5: in the report of explore_site, summary.total_tested = len(all_tests),
\* summary.successful = len(working_endpoints) and summary.failed =
\* total_tested - successful = number of all_tests entries that are not in
\* working_endpoints.
C5_ExplorationSummaryCounts ==
    (script = "simple" /\ exploration_results # Null)
        => LET r == exploration_results
               NotIn(x) == x \notin Range(r.working_endpoints)
           IN  /\ r.summary.total_tested = Len(r.all_tests)
               /\ r.summary.successful = Len(r.working_endpoints)
               /\ r.summary.failed = r.summary.total_tested - r.summary.successful
               /\ r.summary.failed = Count(r.all_tests, NotIn)

\* C5 witness: a returned report with working and failing entries, one of
\* the failing ones a 2xx that is not 200
C5_Witness ==
    /\ script = "simple" /\ entry = "explore_site" /\ pc = "done"
    /\ exploration_results.summary.total_tested = 3
    /\ exploration_results.summary.successful = 1
    /\ exploration_results.summary.failed = 2
    /\ \E k \in 1..3 : /\ exploration_results.all_tests[k].success
                       /\ exploration_results.all_tests[k].status_code = 204

\* C6: in the report of explore_site_structure, total_endpoints_tested is
\* the number of endpoints find_working_endpoints probed and
\* working_endpoints_found the number of them that answered 200.
C6_StructureSummaryCounts ==
    (script = "fixed" /\ site_analysis # Null)
        => /\ site_analysis.exploration_summary.total_endpoints_tested
                = Len(test_urls)
           /\ site_analysis.exploration_summary.working_endpoints_found
                = Len(site_analysis.working_endpoints)

\* C7: after every iteration of the retest loop and in the returned report,
\* successful and failed partition the results: each result is in exactly
\* one of them, successful holds exactly the results with status 200, both
\* keep the input order, and total = successful + failed = number of input
\* URLs; the same for successful_scrapes and failed_scrapes.
C7_RetestPartition ==
    /\ (script = "simple" /\ entry \in {"scrape_original_urls", "main"})
          => /\ successful = SelectSeq(results, Has200)
             /\ failed = SelectSeq(results, Not200)
             /\ \A r \in Range(results) :
                    (r \in Range(successful)) # (r \in Range(failed))
             /\ FieldOf(results, "original_url") = SubSeq(urls, 1, Len(results))
             /\ pc = "retest" => Len(results) = i
             /\ scraping_results # Null
                  => /\ scraping_results.all_results = results
                     /\ scraping_results.successful = successful
                     /\ scraping_results.failed = failed
                     /\ scraping_results.summary.successful = Len(successful)
                     /\ scraping_results.summary.failed = Len(failed)
                     /\ scraping_results.summary.total
                          = scraping_results.summary.successful
                            + scraping_results.summary.failed
                     /\ scraping_results.summary.total = Len(urls)
    /\ (script = "fixed" /\ f_results # Null)
          => LET s == f_results.successful_scrapes
                 f == f_results.failed_scrapes
             IN  /\ \A r \in Range(s) : Has200(r)
                 /\ \A r \in Range(f) : Not200(r)
                 /\ pc = "scrape" => Len(s) + Len(f) = i
                 /\ pc \in {"write", "done", "crashed"}
                      => Len(s) + Len(f) = Len(urls)
                 /\ IsSubSeq(FieldOf(s, "url"), Rewritten(urls))
                 /\ IsSubSeq(Rewritten(FieldOf(f, "url")), Rewritten(urls))

\* C7 witness: a returned retest report over three URLs with a 200, a 204 and
\* a network failure
C7_Witness ==
    /\ script = "simple" /\ entry = "scrape_original_urls" /\ pc = "done"
    /\ Len(scraping_results.all_results) = 3
    /\ Len(scraping_results.successful) = 1
    /\ Len(scraping_results.failed) = 2
    /\ Has200(scraping_results.all_results[2])
    /\ \E r \in Range(scraping_results.failed) : r.success
    /\ \E r \in Range(scraping_results.failed) : ~HasKey(r, "status_code")

\* the three sums of one error analysis over the list it was given
C8_Sums(analysis, given) ==
    /\ analysis.total_failures = Len(given)
    /\ DictSum(analysis.error_types) = analysis.total_failures
    /\ DictSum(analysis.status_codes) = analysis.total_failures

\* C8: for every list of failed results the classifier returns
\* total_failures = length of the list, and the counts of error_types and,
\* independently, of status_codes each sum to total_failures (analyze_errors
\* and _analyze_errors).
C8_TalliesSumToTotal ==
    /\ (error_analysis # Null /\ entry \in {"analyze_errors", "_analyze_errors"})
          => C8_Sums(error_analysis, failed_results)
    /\ (error_analysis # Null /\ script = "simple" /\ entry = "main")
          => C8_Sums(error_analysis, scraping_results.failed)
    /\ (script = "fixed" /\ f_results # Null /\ pc \in {"write", "done", "crashed"})
          => C8_Sums(f_results.error_summary, f_results.failed_scrapes)

\* C8 witness: analyze_errors has run on three results, two of them without
\* a status code and one without an error string
C8_Witness ==
    /\ script = "simple" /\ entry = "analyze_errors" /\ pc = "done"
    /\ error_analysis.total_failures = 3
    /\ DictGet(error_analysis.status_codes, StrKey("Unknown"), 0) = 2
    /\ DictGet(error_analysis.error_types, "Unknown", 0) = 1
    /\ DictGet(error_analysis.status_codes, IntKey(404), 0) = 1

C9_IsFound(m) == Len(m) >= 6 /\ SubSeq(m, 1, 6) = "Found "
C9_IsNone(m) == m = "No working endpoints found - site may be down or completely restructured"
C9_IsLater(m) ==
    m \in { "All original pagination URLs failed",
            "The pagination structure has likely changed",
            "Try using the working endpoints found during exploration",
            "404 errors confirm URL structure has changed",
            "403 errors suggest access restrictions" }

\* C9: generate_recommendations emits the "No working endpoints found"
\* message and no "Found N working endpoints" message when the exploration
\* summary has successful = 0, and the "Found N" message (N = successful) and
\* no "No working endpoints found" message when successful > 0; the message
\* emitted comes before every retest or status-code message.
C9_ExplorationFamily ==
    (script = "simple" /\ recommendations # Null)
        => LET n == exploration_results.summary.successful
               recs == recommendations
               idx == 1..Len(recs)
           IN  /\ n = 0 => /\ \E k \in idx : C9_IsNone(recs[k])
                           /\ \A k \in idx : ~C9_IsFound(recs[k])
               /\ n > 0 => /\ \E k \in idx : recs[k] = "Found " \o ToString(n)
                                                \o " working endpoints"
                           /\ \A k \in idx : ~C9_IsNone(recs[k])
                           /\ Cardinality({k \in idx : C9_IsFound(recs[k])}) = 1
               /\ \A j, k \in idx :
                     ((C9_IsNone(recs[j]) \/ C9_IsFound(recs[j])) /\ C9_IsLater(recs[k]))
                        => j < k

\* C9 witness: recommendations for an exploration with two working endpoints
\* and a retest without success that met a 404
C9_Witness ==
    /\ script = "simple" /\ entry = "generate_recommendations" /\ pc = "done"
    /\ exploration_results.summary.successful = 2
    /\ scraping_results.summary.successful = 0
    /\ \E k \in 1..Len(recommendations) :
          recommendations[k] = "404 errors confirm URL structure has changed"

\* C10: a failure while the final report is persisted (creating the
\* directory, opening or writing the file) never ends main with an error.
C10_PersistFailureOnlyWarns ==
    (entry = "main" /\ pc = "crashed")
        => exc \notin {"OSError: makedirs", "OSError: open"}

C11_HasStatus(list, code) ==
    \E k \in 1..Len(list) : HasKey(list[k], "status_code") /\ list[k].status_code = code

\* C11: the 404 recommendation is emitted if and only if some failed retest
\* result has status code 404, and the 403 recommendation if and only if some
\* failed retest result has status code 403, whatever the other rules emit
\* (generate_recommendations and _generate_recommendations); when every
\* retested URL answers 404 the recommendations hold both the 404 message
\* and "All original pagination URLs failed", and the success rate is "0.0%".
C11_StatusRules ==
    /\ (script = "simple" /\ recommendations # Null)
          => LET recs == Range(recommendations)
                 sc == scraping_results
             IN  /\ ("404 errors confirm URL structure has changed" \in recs)
                       <=> C11_HasStatus(sc.failed, 404)
                 /\ ("403 errors suggest access restrictions" \in recs)
                       <=> C11_HasStatus(sc.failed, 403)
                 /\ (\A k \in 1..Len(sc.all_results) :
                        HasKey(sc.all_results[k], "status_code")
                        /\ sc.all_results[k].status_code = 404)
                       => /\ "404 errors confirm URL structure has changed" \in recs
                          /\ "All original pagination URLs failed" \in recs
                          /\ sc.summary.success_rate = "0.0%"
    /\ (script = "fixed" /\ f_results # Null /\ pc \in {"write", "done", "crashed"})
          => LET recs == Range(f_results.recommendations)
             IN  /\ ("404 errors suggest URL structure has changed" \in recs)
                       <=> C11_HasStatus(f_results.failed_scrapes, 404)
                 /\ ("403 errors suggest access restrictions" \in recs)
                       <=> C11_HasStatus(f_results.failed_scrapes, 403)

\* C11 witness: recommendations for a retest that met a 404 and a 403, with
\* working endpoints found by the exploration
C11_Witness ==
    /\ script = "simple" /\ entry = "generate_recommendations" /\ pc = "done"
    /\ exploration_results.summary.successful > 0
    /\ Len(scraping_results.failed) = 2
    /\ C11_HasStatus(scraping_results.failed, 404)
    /\ C11_HasStatus(scraping_results.failed, 403)
    /\ Len(recommendations) = 7

\* the requests of a run, in the order they were issued
ReqLog == SelectSeq(net, IsRequest)

\* the dict test_url must return after a network-level failure
C12_FailureShape(r) ==
    /\ r.success = FALSE
    /\ ~HasKey(r, "status_code")
    /\ r.error = "<urlopen error timed out>"
    /\ r.content_preview = "No content"

\* the classifier's counts for one failure record r of the list it was given
C12_Tallied(analysis, given, r) ==
    LET SameError(x) == HasKey(x, "error") /\ x.error = r.error
        NoStatus(x) == ~HasKey(x, "status_code")
    IN  /\ DictGet(analysis.error_types, r.error, 0) = Count(given, SameError)
        /\ DictGet(analysis.error_types, r.error, 0) >= 1
        /\ DictGet(analysis.status_codes, StrKey("Unknown"), 0) = Count(given, NoStatus)
        /\ DictGet(analysis.status_codes, StrKey("Unknown"), 0) >= 1

\* C12: when the request for a URL fails at network level, its result has
\* success = false, no status code, error = the text of the failure and
\* content preview "No content"; the retester puts it in failed, and the
\* classifier counts it under error_types at that exact text and under
\* status_codes at "Unknown".
C12_NetworkFailure ==
    /\ (script = "simple" /\ entry \in {"explore_site", "scrape_original_urls", "main"})
          => /\ \A k \in 1..Len(all_tests) :
                    ReqLog[k].outcome.kind = "failure" => C12_FailureShape(all_tests[k])
             /\ \A k \in 1..Len(results) :
                    ReqLog[Len(all_tests) + k].outcome.kind = "failure"
                       => /\ C12_FailureShape(results[k])
                          /\ results[k] \in Range(failed)
                          /\ results[k] \notin Range(successful)
                          /\ scraping_results # Null
                               => results[k] \in Range(scraping_results.failed)
                          /\ error_analysis # Null
                               => C12_Tallied(error_analysis,
                                              scraping_results.failed, results[k])
    /\ (script = "simple" /\ entry = "analyze_errors" /\ error_analysis # Null)
          => \A r \in Range(failed_results) :
                (HasKey(r, "error") /\ ~HasKey(r, "status_code"))
                   => C12_Tallied(error_analysis, failed_results, r)

\* C12 witness: main has analysed a retest whose request failed at network
\* level
C12_Witness ==
    /\ script = "simple" /\ entry = "main" /\ pc = "done"
    /\ Len(results) >= 1
    /\ ReqLog[Len(all_tests) + 1].outcome.kind = "failure"
    /\ error_analysis # Null
    /\ DictGet(error_analysis.error_types, "<urlopen error timed out>", 0) >= 1

\* url with a leading "http://" turned into "https://", and nothing else changed
C13_SchemeToHttps(url) ==
    IF Len(url) >= 7 /\ SubSeq(url, 1, 7) = "http://"
    THEN "https://" \o SubSeq(url, 8, Len(url))
    ELSE url

\* C13 (no retry, input order): scrape_original_urls never issues more
\* requests than it has URLs, every request it has recorded a result for
\* is the one for the URL at the same position, and that result carries the
\* URL requested and, as original_url, the input URL unchanged.
C13_RequestsFollowInput ==
    (script = "simple" /\ entry = "scrape_original_urls")
        => /\ Len(ReqLog) <= Len(urls)
           /\ Len(results) <= Len(ReqLog)
           /\ \A k \in 1..Len(results) :
                 /\ results[k].url = ReqLog[k].url
                 /\ results[k].original_url = urls[k]

\* C13 (targets): the i-th request goes to the i-th input URL with its
\* http:// scheme rewritten to https://.
C13_RequestTargets ==
    (script = "simple" /\ entry = "scrape_original_urls")
        => \A k \in 1..Len(ReqLog) : ReqLog[k].url = C13_SchemeToHttps(urls[k])

\* C13 (completeness): when the call has ended, exactly one request was made
\* and one result recorded per input URL.
C13_AllUrlsRequested ==
    (script = "simple" /\ entry = "scrape_original_urls" /\ Ended)
        => /\ Len(ReqLog) = Len(urls)
           /\ Len(results) = Len(urls)

\* C13: the retester issues exactly one request per input URL, in input
\* order and without retry: n URLs give n requests, the i-th request goes to
\* the i-th URL with its http:// scheme rewritten to https://, and the i-th
\* entry of all_results is that request's result, tagged with the i-th input
\* URL unchanged as original_url.
C13_OneRequestPerUrl ==
    /\ C13_RequestsFollowInput
    /\ C13_RequestTargets
    /\ C13_AllUrlsRequested

====
